---- MODULE Spec2Model ----
(***************************************************************************)
(* Model of the reconciliation core of the ResourceGroup controller:       *)
(*   - internal/controller/resourcegroup_status.go                         *)
(*       handleReconcileError, setResourceGroupStatus                      *)
(*   - the parser package (ParseResource, parseResource, getFieldSchema)   *)
(***************************************************************************)
EXTENDS Integers, Sequences, FiniteSets, TLC

VARIABLES
    \* ---- status derivation / status patch ----
    stored,            \* the ResourceGroup object held by the API server
    resourcegroup,     \* the object the reconciler read and passes to setResourceGroupStatus
    topologicalOrder,  \* argument of setResourceGroupStatus
    reconcileErr,      \* argument of setResourceGroupStatus / handleReconcileError
    patchErr,          \* error returned by r.Status().Patch
    pc,                \* position of the reconciler
    \* ---- handleReconcileError ----
    result,            \* the (ctrl.Result, error) pair returned
    \* ---- parser ----
    resource,          \* the document handed to ParseResource
    schema,            \* the caller's *spec.Schema (a pointer: the callee can write to it)
    schema0,           \* the schema as it was when the call was made
    mapOrder,          \* the order in which Go ranges over a map, for this call
    parsed             \* the ([]ExpressionField, error) pair returned

vars == <<stored, resourcegroup, topologicalOrder, reconcileErr, patchErr, pc,
          result, resource, schema, schema0, mapOrder, parsed>>

statusVars == <<stored, resourcegroup, topologicalOrder, reconcileErr, patchErr>>
parserVars == <<resource, schema, schema0, mapOrder, parsed>>

-----------------------------------------------------------------------------
(* Bounds *)

MaxChain == 2        \* longest chain of error wrappers around a cause
MaxDuration == 2     \* largest RequeueNeededAfter duration
MaxRevision == 3     \* resourceVersion cap for the patch model

-----------------------------------------------------------------------------
(* Errors: a cause wrapped by a chain of wrappers, outermost first.        *)

PhaseKinds == <<"ProcessCRDError", "ReconcileGraphError",
                "ReconcileCRDError", "ReconcileMicroControllerError">>

PhaseKindSet == {PhaseKinds[i] : i \in 1..4}

Wrappers ==
    {[tag |-> k, d |-> 0] : k \in PhaseKindSet \cup {"RequeueNeeded", "NoRequeue"}}
    \cup {[tag |-> "RequeueNeededAfter", d |-> n] : n \in 1..MaxDuration}

CauseTexts == {"boom", "bang"}

Chains == UNION {[1..n -> Wrappers] : n \in 0..MaxChain}

NilError == [isNil |-> TRUE, chain |-> <<>>, cause |-> ""]

Errors == {NilError} \cup
          {[isNil |-> FALSE, chain |-> c, cause |-> t] : c \in Chains, t \in CauseTexts}

\* errors.As(err, &target): the first error in err's chain of the target type.
\* 0 when there is none (errors.As returns false), also for a nil err.
As(err, tag) ==
    LET hits == {i \in 1..Len(err.chain) : err.chain[i].tag = tag}
    IN  IF err.isNil \/ hits = {} THEN 0
        ELSE CHOOSE i \in hits : \A j \in hits : i <= j

\* err.Error(): every wrapper delegates to the error it wraps.
ErrorText(err) == err.cause

-----------------------------------------------------------------------------
(* handleReconcileError *)

EmptyResult == [Requeue |-> FALSE, RequeueAfter |-> 0]

handleReconcileError_swapped(err) ==
    IF As(err, "RequeueNeeded") # 0
    THEN [res |-> [Requeue |-> TRUE, RequeueAfter |-> 0], err |-> NilError]
    ELSE IF As(err, "RequeueNeededAfter") # 0
    THEN [res |-> [Requeue |-> FALSE,
                   RequeueAfter |-> err.chain[As(err, "RequeueNeededAfter")].d],
          err |-> NilError]
    ELSE IF As(err, "NoRequeue") # 0
    THEN [res |-> EmptyResult, err |-> NilError]
    ELSE [res |-> EmptyResult, err |-> err]

handleReconcileError(err) ==
    IF As(err, "RequeueNeededAfter") # 0
    THEN [res |-> [Requeue |-> FALSE,
                   RequeueAfter |-> err.chain[As(err, "RequeueNeededAfter")].d],
          err |-> NilError]
    ELSE IF As(err, "RequeueNeeded") # 0
    THEN [res |-> [Requeue |-> TRUE, RequeueAfter |-> 0], err |-> NilError]
    ELSE IF As(err, "NoRequeue") # 0
    THEN [res |-> EmptyResult, err |-> NilError]
    ELSE [res |-> EmptyResult, err |-> err]

-----------------------------------------------------------------------------
(* Conditions *)

ReconcilerReady == "ReconcilerReady"
GraphVerified == "GraphVerified"
CustomResourceDefinitionSynced == "CustomResourceDefinitionSynced"

ConditionTypes == {ReconcilerReady, GraphVerified, CustomResourceDefinitionSynced}

NewCondition(t, status, reason, message) ==
    [type |-> t, status |-> status, reason |-> reason, message |-> message]

NewReconcilerReadyCondition(status, reason, message) ==
    NewCondition(ReconcilerReady, status, reason, message)

NewGraphVerifiedCondition(status, reason, message) ==
    NewCondition(GraphVerified, status, reason, message)

NewCustomResourceDefinitionSyncedCondition(status, reason, message) ==
    NewCondition(CustomResourceDefinitionSynced, status, reason, message)

\* Upsert keyed by Type: replace the condition of that type where it stands,
\* append when the list has none.
SetCondition(conditions, c) ==
    IF \E i \in 1..Len(conditions) : conditions[i].type = c.type
    THEN [i \in 1..Len(conditions) |->
            IF conditions[i].type = c.type THEN c ELSE conditions[i]]
    ELSE Append(conditions, c)

-----------------------------------------------------------------------------
(* setResourceGroupStatus *)

MsgReady == "micro controller is ready"
MsgGraph == "Directed Acyclic Graph is synced"
MsgCRD == "Custom Resource Definition is synced"

\* lines 75-83: the baseline, all three conditions True
ApplyBaseline(conditions) ==
    LET c1 == SetCondition(conditions, NewReconcilerReadyCondition("True", "", MsgReady))
        c2 == SetCondition(c1, NewGraphVerifiedCondition("True", "", MsgGraph))
    IN  SetCondition(c2, NewCustomResourceDefinitionSyncedCondition("True", "", MsgCRD))

\* lines 90-104
ApplyProcessCRDError(conditions, err) ==
    LET c1 == SetCondition(conditions,
                NewGraphVerifiedCondition("Unknown",
                    "error parsing schema: " \o ErrorText(err), MsgGraph))
        c2 == SetCondition(c1,
                NewCustomResourceDefinitionSyncedCondition("False",
                    "error parsing schema: " \o ErrorText(err), MsgCRD))
    IN  SetCondition(c2, NewReconcilerReadyCondition("Unknown", "Faulty Graph", MsgReady))

ApplyReconcileGraphError_noCRD(conditions, err) ==
    LET c1 == SetCondition(conditions,
                NewGraphVerifiedCondition("False", ErrorText(err), MsgGraph))
    IN  SetCondition(c1, NewReconcilerReadyCondition("Unknown", "Faulty Graph", MsgReady))

\* lines 107-121
ApplyReconcileGraphError(conditions, err) ==
    LET c1 == SetCondition(conditions,
                NewGraphVerifiedCondition("False", ErrorText(err), MsgGraph))
        c2 == SetCondition(c1, NewReconcilerReadyCondition("Unknown", "Faulty Graph", MsgReady))
    IN  SetCondition(c2,
            NewCustomResourceDefinitionSyncedCondition("Unknown", "Faulty Graph", MsgCRD))

ApplyReconcileCRDError_reason(conditions, err) ==
    LET c1 == SetCondition(conditions, NewGraphVerifiedCondition("True", "", MsgGraph))
        c2 == SetCondition(c1,
                NewCustomResourceDefinitionSyncedCondition("False", ErrorText(err), MsgCRD))
    IN  SetCondition(c2, NewReconcilerReadyCondition("Unknown", "Faulty Graph", MsgReady))

\* lines 124-137
ApplyReconcileCRDError(conditions, err) ==
    LET c1 == SetCondition(conditions, NewGraphVerifiedCondition("True", "", MsgGraph))
        c2 == SetCondition(c1,
                NewCustomResourceDefinitionSyncedCondition("False", ErrorText(err), MsgCRD))
    IN  SetCondition(c2, NewReconcilerReadyCondition("Unknown", "CRD not-synced", MsgReady))

\* lines 140-152
ApplyReconcileMicroControllerError(conditions, err) ==
    LET c1 == SetCondition(conditions, NewGraphVerifiedCondition("True", "", MsgGraph))
        c2 == SetCondition(c1,
                NewCustomResourceDefinitionSyncedCondition("True", "", MsgCRD))
    IN  SetCondition(c2, NewReconcilerReadyCondition("False", ErrorText(err), MsgReady))

\* lines 72-156: the object dc that setResourceGroupStatus builds from a deep
\* copy of the object it is given.
DeriveStatus(rg, topo, err) ==
    LET c0 == ApplyBaseline(rg.status.Conditions)
        c1 == IF As(err, "ProcessCRDError") # 0
              THEN ApplyProcessCRDError(c0, err) ELSE c0
        c2 == IF As(err, "ReconcileGraphError") # 0
              THEN ApplyReconcileGraphError(c1, err) ELSE c1
        c3 == IF As(err, "ReconcileCRDError") # 0
              THEN ApplyReconcileCRDError(c2, err) ELSE c2
        c4 == IF As(err, "ReconcileMicroControllerError") # 0
              THEN ApplyReconcileMicroControllerError(c3, err) ELSE c3
    IN  [resourceVersion |-> rg.resourceVersion,
         status |-> [State |-> IF err.isNil THEN "ACTIVE" ELSE "INACTIVE",
                     TopoligicalOrder |-> topo,
                     Conditions |-> IF err.isNil THEN c0 ELSE c4]]

\* client.MergeFrom(base) applied to the modified object: a JSON merge patch
\* holding the status fields in which modified differs from base (a list is
\* replaced as a whole).  It carries no resourceVersion precondition.
MergeFrom(base, modified) ==
    [State |-> base.status.State # modified.status.State,
     TopoligicalOrder |-> base.status.TopoligicalOrder # modified.status.TopoligicalOrder,
     Conditions |-> base.status.Conditions # modified.status.Conditions]

\* r.Status().Patch(ctx, obj, patch) as the API server applies it.
StatusPatch(cur, obj, patch) ==
    LET st == [State |-> IF patch.State THEN obj.status.State ELSE cur.status.State,
               TopoligicalOrder |-> IF patch.TopoligicalOrder
                                    THEN obj.status.TopoligicalOrder
                                    ELSE cur.status.TopoligicalOrder,
               Conditions |-> IF patch.Conditions THEN obj.status.Conditions
                              ELSE cur.status.Conditions]
    IN  [resourceVersion |-> IF st = cur.status THEN cur.resourceVersion
                             ELSE cur.resourceVersion + 1,
         status |-> st]

ConditionOf(obj, t) ==
    LET idx == {i \in 1..Len(obj.status.Conditions) : obj.status.Conditions[i].type = t}
    IN  obj.status.Conditions[CHOOSE i \in idx : TRUE]

CountOf(obj, t) ==
    Cardinality({i \in 1..Len(obj.status.Conditions) : obj.status.Conditions[i].type = t})

-----------------------------------------------------------------------------
(* Inputs of the status derivation *)

ResourceNames == {"a", "b"}

TopoOrders == {<<>>, <<"a", "b">>, <<"b", "a">>}

StatusValues == {"True", "False", "Unknown"}

TypeOrders ==
    {s \in UNION {[1..n -> ConditionTypes] : n \in 0..3} :
        \A i, j \in 1..Len(s) : i # j => s[i] # s[j]}

PriorConditionLists ==
    {[i \in 1..Len(s) |-> NewCondition(s[i], v, "prior", "prior")] :
        s \in TypeOrders, v \in StatusValues}

PriorObjects ==
    {[resourceVersion |-> 1,
      status |-> [State |-> IF cl = <<>> THEN ""
                            ELSE IF cl[1].status = "True" THEN "ACTIVE" ELSE "INACTIVE",
                  TopoligicalOrder |-> IF cl = <<>> THEN <<>> ELSE <<"b", "a">>,
                  Conditions |-> cl]] : cl \in PriorConditionLists}

FreshObject ==
    [resourceVersion |-> 1,
     status |-> [State |-> "", TopoligicalOrder |-> <<>>, Conditions |-> <<>>]]

NoParse == [fields |-> <<>>, err |-> "none"]

ParserIdle ==
    /\ resource = [k |-> "nil"]
    /\ schema = [k |-> "nil"]
    /\ schema0 = [k |-> "nil"]
    /\ mapOrder = FALSE
    /\ parsed = NoParse

-----------------------------------------------------------------------------
(* The reconciler calling setResourceGroupStatus once *)

InitStatus ==
    /\ resourcegroup \in PriorObjects
    /\ stored = resourcegroup
    /\ topologicalOrder \in TopoOrders
    /\ reconcileErr \in Errors
    /\ patchErr = "none"
    /\ pc = "read"
    /\ result = [res |-> EmptyResult, err |-> NilError]
    /\ ParserIdle

\* The whole of setResourceGroupStatus: derive dc, build the merge patch against
\* a copy of the object that was read, send it.
SetResourceGroupStatus ==
    /\ pc = "read"
    /\ stored.resourceVersion < MaxRevision
    /\ LET dc == DeriveStatus(resourcegroup, topologicalOrder, reconcileErr)
           patch == MergeFrom(resourcegroup, dc)
       IN  stored' = StatusPatch(stored, dc, patch)
    /\ patchErr' = "nil"
    /\ pc' = "done"
    /\ UNCHANGED <<resourcegroup, topologicalOrder, reconcileErr, result>>
    /\ UNCHANGED parserVars

NextStatus == SetResourceGroupStatus

SpecStatus == InitStatus /\ [][NextStatus]_vars

-----------------------------------------------------------------------------
(* handleReconcileError called once *)

InitRequeue ==
    /\ reconcileErr \in Errors
    /\ resourcegroup = FreshObject
    /\ stored = FreshObject
    /\ topologicalOrder = <<>>
    /\ patchErr = "none"
    /\ pc = "call"
    /\ result = [res |-> EmptyResult, err |-> NilError]
    /\ ParserIdle

HandleReconcileError ==
    /\ pc = "call"
    /\ result' = handleReconcileError(reconcileErr)
    /\ pc' = "returned"
    /\ UNCHANGED statusVars
    /\ UNCHANGED parserVars

NextRequeue == HandleReconcileError

SpecRequeue == InitRequeue /\ [][NextRequeue]_vars

-----------------------------------------------------------------------------
(* Properties of the status derivation *)

\* the phase kinds found in the cause chain of the error
MatchedKinds(err) ==
    {k \in PhaseKindSet : \E i \in 1..Len(err.chain) : err.chain[i].tag = k}

\* the matched kind that comes last in the order SchemaError, GraphError,
\* SyncError, ReadinessError
LastKind(err) ==
    PhaseKinds[CHOOSE i \in 1..4 :
        /\ PhaseKinds[i] \in MatchedKinds(err)
        /\ \A j \in 1..4 : PhaseKinds[j] \in MatchedKinds(err) => j <= i]

\* the table of section 4.4: <<GraphVerified, TypeSynced, Ready>>
TableRow(k) ==
    CASE k = "ProcessCRDError" -> <<"Unknown", "False", "Unknown">>
      [] k = "ReconcileGraphError" -> <<"False", "Unknown", "Unknown">>
      [] k = "ReconcileCRDError" -> <<"True", "False", "Unknown">>
      [] k = "ReconcileMicroControllerError" -> <<"True", "True", "False">>

Triple(obj) ==
    <<ConditionOf(obj, GraphVerified).status,
      ConditionOf(obj, CustomResourceDefinitionSynced).status,
      ConditionOf(obj, ReconcilerReady).status>>

OnePerType(obj) == \A t \in ConditionTypes : CountOf(obj, t) = 1

FixedReasons == {"", "Faulty Graph", "CRD not-synced"}

\* C4: for an error of a phase kind, every derived condition has a Reason that
\* is one of the fixed tokens, and the condition that reports the failure
\* carries the cause text in its Message.
C4_ReasonFixedMessageCause ==
    (pc = "done" /\ MatchedKinds(reconcileErr) # {}) =>
        \A t \in ConditionTypes :
            /\ ConditionOf(stored, t).reason \in FixedReasons
            /\ ConditionOf(stored, t).status = "False" =>
                  ConditionOf(stored, t).message = ErrorText(reconcileErr)

\* the conditions a call derives from an empty status for an error of the one
\* kind k with the given cause
SingleKindConditions(k, cause) ==
    DeriveStatus(FreshObject, <<>>,
        [isNil |-> FALSE, chain |-> <<[tag |-> k, d |-> 0]>>, cause |-> cause])

\* C7: when the chain matches several phase kinds, the three conditions are
\* those of the last matched kind in the fixed order, in Status and in Reason,
\* and nothing written for an earlier kind remains.
C7_LastKindWins ==
    (pc = "done" /\ Cardinality(MatchedKinds(reconcileErr)) >= 2) =>
        /\ Triple(stored) = TableRow(LastKind(reconcileErr))
        /\ \A t \in ConditionTypes :
              ConditionOf(stored, t) =
                ConditionOf(SingleKindConditions(LastKind(reconcileErr),
                                                 reconcileErr.cause), t)

C7_Witness ==
    /\ pc = "done"
    /\ MatchedKinds(reconcileErr) = {"ProcessCRDError", "ReconcileGraphError"}
    /\ reconcileErr.chain[1].tag = "ReconcileGraphError"
    /\ Triple(stored) = <<"False", "Unknown", "Unknown">>

\* C10: State is ACTIVE exactly when all three conditions are True.
C10_StateCoherent ==
    pc = "done" =>
        (stored.status.State = "ACTIVE" <=> Triple(stored) = <<"True", "True", "True">>)

-----------------------------------------------------------------------------
(* Properties of handleReconcileError *)

HasMarker(err, tag) == \E i \in 1..Len(err.chain) : err.chain[i].tag = tag

\* the duration of the outermost After marker
OutermostAfter(err) ==
    LET i == CHOOSE i \in 1..Len(err.chain) :
                /\ err.chain[i].tag = "RequeueNeededAfter"
                /\ \A j \in 1..(i - 1) : err.chain[j].tag # "RequeueNeededAfter"
    IN  err.chain[i].d

\* the error without its phase wrappers
StripPhase(err) ==
    [err EXCEPT !.chain = SelectSeq(err.chain, LAMBDA w : w.tag \notin PhaseKindSet)]

\* C3: After, then Now, then None decide the directive, whatever else the chain
\* holds; no marker returns the error unchanged with the empty directive; nil
\* gives the empty directive and nil.  Phase wrappers do not change the directive.
C3_RequeuePriority ==
    pc = "returned" =>
        /\ HasMarker(reconcileErr, "RequeueNeededAfter") =>
              /\ result.res = [Requeue |-> FALSE,
                               RequeueAfter |-> OutermostAfter(reconcileErr)]
              /\ result.err = NilError
        /\ (~HasMarker(reconcileErr, "RequeueNeededAfter")
              /\ HasMarker(reconcileErr, "RequeueNeeded")) =>
              /\ result.res = [Requeue |-> TRUE, RequeueAfter |-> 0]
              /\ result.err = NilError
        /\ (~HasMarker(reconcileErr, "RequeueNeededAfter")
              /\ ~HasMarker(reconcileErr, "RequeueNeeded")
              /\ HasMarker(reconcileErr, "NoRequeue")) =>
              /\ result.res = EmptyResult
              /\ result.err = NilError
        /\ (~HasMarker(reconcileErr, "RequeueNeededAfter")
              /\ ~HasMarker(reconcileErr, "RequeueNeeded")
              /\ ~HasMarker(reconcileErr, "NoRequeue")) =>
              /\ result.res = EmptyResult
              /\ result.err = reconcileErr
        /\ reconcileErr.isNil => result = [res |-> EmptyResult, err |-> NilError]
        /\ result.res = handleReconcileError(StripPhase(reconcileErr)).res

C3_Witness ==
    /\ pc = "returned"
    /\ Len(reconcileErr.chain) = 2
    /\ reconcileErr.chain[1].tag = "RequeueNeeded"
    /\ reconcileErr.chain[2].tag = "RequeueNeededAfter"
    /\ result.res.RequeueAfter = reconcileErr.chain[2].d
    /\ ~result.res.Requeue

-----------------------------------------------------------------------------
(* Another writer racing with setResourceGroupStatus *)

PatchErrors ==
    {NilError} \cup
    {[isNil |-> FALSE, chain |-> <<[tag |-> k, d |-> 0]>>, cause |-> "boom"] :
        k \in PhaseKindSet}

InitPatch ==
    /\ stored = FreshObject
    /\ resourcegroup = FreshObject
    /\ topologicalOrder = <<>>
    /\ reconcileErr = NilError
    /\ patchErr = "none"
    /\ pc = "idle"
    /\ result = [res |-> EmptyResult, err |-> NilError]
    /\ ParserIdle

\* the reconciler reads the object and is handed this pass's error and order
Get ==
    /\ pc \in {"idle", "done"}
    /\ resourcegroup' = stored
    /\ reconcileErr' \in PatchErrors
    /\ topologicalOrder' \in TopoOrders
    /\ patchErr' = "none"
    /\ pc' = "read"
    /\ UNCHANGED <<stored, result>>
    /\ UNCHANGED parserVars

\* a second instance of the controller reads, derives and patches the status
OtherWriter ==
    /\ stored.resourceVersion < MaxRevision
    /\ \E e \in PatchErrors, t \in TopoOrders :
          LET dc == DeriveStatus(stored, t, e)
          IN  /\ stored' = StatusPatch(stored, dc, MergeFrom(stored, dc))
              /\ stored' # stored
    /\ UNCHANGED <<resourcegroup, topologicalOrder, reconcileErr, patchErr, pc, result>>
    /\ UNCHANGED parserVars

NextPatch == Get \/ OtherWriter \/ SetResourceGroupStatus

SpecPatch == InitPatch /\ [][NextPatch]_vars

\* C2: a patch sent after another writer changed the stored object fails with
\* a conflict and leaves the stored object as it is.
C2_PatchIsCompareAndSwap ==
    [][(pc = "read" /\ pc' = "done"
          /\ stored.resourceVersion # resourcegroup.resourceVersion)
        => (patchErr' = "Conflict" /\ stored' = stored)]_vars

-----------------------------------------------------------------------------
(* Strings are sequences of one-character strings.                         *)

MaxStrLen == 6       \* longest enumerated string leaf
MaxItems == 2        \* longest enumerated array

Str(s) == [k |-> "string", s |-> s]

\* strings.Trim(s, cutset): drop every leading and trailing character of cutset
RECURSIVE TrimLeft(_, _)
TrimLeft(s, cutset) ==
    IF s # <<>> /\ Head(s) \in cutset THEN TrimLeft(Tail(s), cutset) ELSE s

RECURSIVE TrimRight(_, _)
TrimRight(s, cutset) ==
    IF s # <<>> /\ s[Len(s)] \in cutset
    THEN TrimRight(SubSeq(s, 1, Len(s) - 1), cutset) ELSE s

Trim(s, cutset) == TrimRight(TrimLeft(s, cutset), cutset)

\* the inner text of a string known to be "${" body "}"
StripDelimiters(s) == SubSeq(s, 3, Len(s) - 1)

\* first index >= from where "${" starts, 0 when there is none
IndexOfStart(s, from) ==
    LET hits == {i \in from..(Len(s) - 1) : s[i] = "$" /\ s[i + 1] = "{"}
    IN  IF hits = {} THEN 0 ELSE CHOOSE i \in hits : \A j \in hits : i <= j

\* index of the "}" that closes the expression, scanning from i with the given
\* nesting depth; 0 when the string ends first
RECURSIVE MatchingClose(_, _, _)
MatchingClose(s, i, depth) ==
    IF i > Len(s) THEN 0
    ELSE IF s[i] = "{" THEN MatchingClose(s, i + 1, depth + 1)
    ELSE IF s[i] = "}"
         THEN IF depth = 1 THEN i ELSE MatchingClose(s, i + 1, depth - 1)
    ELSE MatchingClose(s, i + 1, depth)

\* extractExpressions: the bodies of the delimited spans, left to right; an
\* opening delimiter without its matching close is an error
RECURSIVE ExtractFrom(_, _, _)
ExtractFrom(s, from, acc) ==
    LET b == IndexOfStart(s, from)
        e == MatchingClose(s, b + 2, 1)
    IN  IF b = 0 THEN [exprs |-> acc, err |-> "nil"]
        ELSE IF e = 0 THEN [exprs |-> <<>>, err |-> "MalformedExpression"]
        ELSE ExtractFrom(s, e + 1, Append(acc, SubSeq(s, b + 2, e - 1)))

extractExpressions(s) == ExtractFrom(s, 1, <<>>)

\* isOneShotExpression: the whole string is one delimited span
isOneShotExpression(s) ==
    LET x == extractExpressions(s)
    IN  IF x.err # "nil" THEN [ok |-> FALSE, err |-> x.err]
        ELSE [ok |-> /\ Len(x.exprs) = 1
                     /\ s = <<"$", "{">> \o x.exprs[1] \o <<"}">>,
              err |-> "nil"]

-----------------------------------------------------------------------------
(* Schemas.  A pointer is a sequence of length 0 (nil) or 1.                *)

Schema(type, props, items, ap, oneOf) ==
    [Type |-> type, Properties |-> props, Items |-> items,
     AdditionalProperties |-> ap, OneOf |-> oneOf]

NoProps == <<>>

EmptySchema == Schema(<<>>, NoProps, <<>>, <<>>, <<>>)

Typed(t) == Schema(<<t>>, NoProps, <<>>, <<>>, <<>>)

KeyRank(key) == CASE key = "a" -> 1 [] key = "b" -> 2 [] key = "x" -> 3

\* the keys of a map in the order this run ranges over them
RECURSIVE KeysInOrder(_, _)
KeysInOrder(keys, descending) ==
    IF keys = {} THEN <<>>
    ELSE LET f == CHOOSE f \in keys :
                    \A g \in keys : IF descending THEN KeyRank(g) <= KeyRank(f)
                                    ELSE KeyRank(f) <= KeyRank(g)
         IN  <<f>> \o KeysInOrder(keys \ {f}, descending)

\* getFieldSchema: via tells where the returned pointer points
getFieldSchema(sch, field) ==
    IF field \in DOMAIN sch.Properties
    THEN [schema |-> <<sch.Properties[field]>>, err |-> "nil", via |-> "copy"]
    ELSE IF sch.AdditionalProperties # <<>> /\ sch.AdditionalProperties[1].Schema # <<>>
    THEN [schema |-> sch.AdditionalProperties[1].Schema, err |-> "nil", via |-> "additional"]
    ELSE IF sch.AdditionalProperties # <<>> /\ sch.AdditionalProperties[1].Allows
    THEN [schema |-> <<EmptySchema>>, err |-> "nil", via |-> "fresh"]
    ELSE [schema |-> <<>>, err |-> "FieldNotFound", via |-> "none"]

Fail(code, sch) == [fields |-> <<>>, err |-> code, schema |-> sch]

\* lines 65-72: a schema without a single type takes the type of its first
\* oneOf alternative, written into the schema itself
ResolveType(sch) ==
    IF Len(sch.Type) # 1 /\ Len(sch.OneOf) > 0 /\ Len(sch.OneOf[1].Type) > 0
    THEN [sch EXCEPT !.Type = <<sch.OneOf[1].Type[1]>>]
    ELSE sch

\* lines 74-78
ExpectedType(sch) ==
    IF sch.Type[1] = "" /\ sch.AdditionalProperties # <<>>
       /\ sch.AdditionalProperties[1].Allows
    THEN "any" ELSE sch.Type[1]

\* lines 102-118: the schema the elements of an array are walked against
ItemSchema(sch) ==
    IF sch.Items # <<>> /\ sch.Items[1].Schema # <<>>
    THEN [schema |-> sch.Items[1].Schema, via |-> "items"]
    ELSE IF sch.Items # <<>> /\ sch.Items[1].Schema # <<>>
            /\ DOMAIN sch.Items[1].Schema[1].Properties # {}
    THEN [schema |-> <<Schema(<<"object">>, sch.Properties, <<>>, <<>>, <<>>)>>,
          via |-> "fresh"]
    ELSE [schema |-> <<>>, via |-> "none"]

\* lines 127-155
ParseString(s, sch, expectedType, path) ==
    LET one == isOneShotExpression(s)
        x == extractExpressions(s)
    IN  IF one.err # "nil" THEN Fail(one.err, sch)
        ELSE IF one.ok
        THEN [fields |-> <<[Path |-> path,
                            Expressions |-> <<Trim(s, {"$", "{", "}"})>>,
                            ExpectedType |-> expectedType,
                            ExpectedSchema |-> <<sch>>,
                            OneShotCEL |-> TRUE]>>,
              err |-> "nil", schema |-> sch]
        ELSE IF expectedType # "string" /\ expectedType # "any"
        THEN Fail("ExpectedString", sch)
        ELSE IF x.err # "nil" THEN Fail(x.err, sch)
        ELSE [fields |-> IF Len(x.exprs) > 0
                         THEN <<[Path |-> path,
                                 Expressions |-> x.exprs,
                                 ExpectedType |-> expectedType,
                                 ExpectedSchema |-> <<>>,
                                 OneShotCEL |-> FALSE]>>
                         ELSE <<>>,
              err |-> "nil", schema |-> sch]

\* lines 156-180
ParseScalar(kind, sch, expectedType) ==
    IF expectedType = "any" THEN [fields |-> <<>>, err |-> "nil", schema |-> sch]
    ELSE IF expectedType = "number"
    THEN IF kind = "float64" THEN [fields |-> <<>>, err |-> "nil", schema |-> sch]
         ELSE Fail("ExpectedNumber", sch)
    ELSE IF expectedType = "integer"
    THEN IF kind \in {"int", "int64", "int32"}
         THEN [fields |-> <<>>, err |-> "nil", schema |-> sch]
         ELSE Fail("ExpectedInteger", sch)
    ELSE IF expectedType = "boolean"
    THEN IF kind = "bool" THEN [fields |-> <<>>, err |-> "nil", schema |-> sch]
         ELSE Fail("ExpectedBoolean", sch)
    ELSE Fail("UnexpectedType", sch)

RECURSIVE parseResource(_, _, _, _)
RECURSIVE ParseFields(_, _, _, _, _, _)
RECURSIVE ParseItems(_, _, _, _, _, _)

\* lines 86-97: the loop over the keys of a map.  sch is the schema as written
\* so far; a child found among the properties is walked through a copy, whose
\* own Type field is the only part that is not shared with the original.
ParseFields(m, keys, sch, path, descending, acc) ==
    IF keys = <<>> THEN [fields |-> acc, err |-> "nil", schema |-> sch]
    ELSE
      LET field == Head(keys)
          fs == getFieldSchema(sch, field)
          r == parseResource(m[field], fs.schema, path \o "." \o field, descending)
          sch2 == IF fs.via = "copy"
                  THEN [sch EXCEPT !.Properties[field] =
                          [r.schema[1] EXCEPT !.Type = sch.Properties[field].Type]]
                  ELSE IF fs.via = "additional"
                  THEN [sch EXCEPT !.AdditionalProperties[1].Schema = r.schema]
                  ELSE sch
      IN  IF fs.err # "nil" THEN Fail(fs.err, sch)
          ELSE IF r.err # "nil" THEN Fail(r.err, sch2)
          ELSE ParseFields(m, Tail(keys), sch2, path, descending, acc \o r.fields)

\* lines 119-126: the loop over the elements; item is the pointer they share
ParseItems(a, i, item, path, descending, acc) ==
    IF i > Len(a) THEN [fields |-> acc, err |-> "nil", schema |-> item]
    ELSE
      LET r == parseResource(a[i], item, path \o "[" \o ToString(i - 1) \o "]", descending)
      IN  IF r.err # "nil" THEN Fail(r.err, r.schema)
          ELSE ParseItems(a, i + 1, r.schema, path, descending, acc \o r.fields)

\* lines 59-183.  ptr is the *spec.Schema argument; the schema field of the
\* value returned is what ptr points to when the call returns.
parseResource(res, ptr, path, descending) ==
    IF ptr = <<>> THEN Fail("SchemaNil", ptr)
    ELSE IF Len(ptr[1].Type) # 1 /\ Len(ptr[1].OneOf) = 0
    THEN Fail("NotSingleType", ptr)
    ELSE IF Len(ptr[1].Type) # 1 /\ Len(ptr[1].OneOf[1].Type) = 0
    THEN Fail("panic: index out of range", ptr)
    ELSE
      LET sch == ResolveType(ptr[1])
          expectedType == ExpectedType(sch)
      IN  CASE res.k = "map" ->
                IF expectedType # "object"
                   /\ (sch.AdditionalProperties = <<>>
                       \/ ~sch.AdditionalProperties[1].Allows)
                THEN Fail("ExpectedObject", <<sch>>)
                ELSE LET r == ParseFields(res.m, KeysInOrder(DOMAIN res.m, descending),
                                          sch, path, descending, <<>>)
                     IN  [fields |-> r.fields, err |-> r.err, schema |-> <<r.schema>>]
            [] res.k = "array" ->
                IF expectedType # "array" THEN Fail("ExpectedArray", <<sch>>)
                ELSE LET it == ItemSchema(sch)
                         r == ParseItems(res.a, 1, it.schema, path, descending, <<>>)
                     IN  IF it.via = "none" THEN Fail("InvalidArraySchema", <<sch>>)
                         ELSE [fields |-> r.fields, err |-> r.err,
                               schema |-> IF it.via = "items"
                                          THEN <<[sch EXCEPT !.Items[1].Schema = r.schema]>>
                                          ELSE <<sch>>]
            [] res.k = "string" ->
                LET r == ParseString(res.s, sch, expectedType, path)
                IN  [fields |-> r.fields, err |-> r.err, schema |-> <<sch>>]
            [] OTHER ->
                LET r == ParseScalar(res.k, sch, expectedType)
                IN  [fields |-> r.fields, err |-> r.err, schema |-> <<sch>>]

\* ParseResource, lines 52-54
ParseResourceTop(res, ptr, descending) == parseResource(res, ptr, "", descending)

-----------------------------------------------------------------------------
(* Inputs of the parser *)

Alphabet == {"$", "{", "}", "a"}

AllStrings == UNION {[1..n -> Alphabet] : n \in 0..MaxStrLen}

\* "${foo.bar}", "${a{b}}", "hello-${foo}-${bar}", "${unterminated"
NamedStrings ==
    {<<"$", "{", "f", "o", "o", ".", "b", "a", "r", "}">>,
     <<"$", "{", "a", "{", "b", "}", "}">>,
     <<"h", "i", "-", "$", "{", "f", "}", "-", "$", "{", "b", "}">>,
     <<"$", "{", "u", "n">>}

Map(f) == [k |-> "map", m |-> f]
Array(s) == [k |-> "array", a |-> s]

Scalars == {[k |-> "int"], [k |-> "float64"], [k |-> "bool"]}

FewStrings == {Str(<<"p">>), Str(<<"$", "{", "a", "}">>)}

Values1 == Scalars \cup FewStrings

Maps1 == {Map(f) : f \in UNION {[D -> Values1] : D \in SUBSET {"a", "x"}}}

Elements == {[k |-> "int"], Str(<<"$", "{", "a", "}">>),
             Map("a" :> Str(<<"p">>)), Map("a" :> [k |-> "int"])}

Arrays == {Array(s) : s \in UNION {[1..n -> Elements] : n \in 0..MaxItems}}

Values2 == Values1 \cup Maps1 \cup Arrays

RootDocuments ==
    {Map(<<>>)}
    \cup {Map("a" :> v) : v \in Values2}
    \cup {Map("x" :> w) : w \in Values1}
    \cup {Map(("a" :> v) @@ ("x" :> w)) : v \in Values2, w \in Values1}

AllowsOnly == <<[Allows |-> TRUE, Schema |-> <<>>]>>

OneOfString == Schema(<<>>, NoProps, <<>>, <<>>, <<Typed("string")>>)

LeafSchemas ==
    {Typed("string"), Typed("integer"), Typed("number"), Typed("boolean"),
     OneOfString,
     Schema(<<"">>, NoProps, <<>>, AllowsOnly, <<>>),
     EmptySchema,
     Schema(<<>>, NoProps, <<>>, <<>>, <<EmptySchema>>)}

AdditionalRules ==
    {<<>>, AllowsOnly, <<[Allows |-> FALSE, Schema |-> <<>>]>>}
    \cup {<<[Allows |-> TRUE, Schema |-> <<l>>]>> : l \in {Typed("string"), OneOfString}}

PropsOver(L) == {NoProps} \cup {"a" :> l : l \in L}

ObjectSchemas1 ==
    {Schema(<<"object">>, p, <<>>, ap, <<>>) :
        p \in PropsOver(LeafSchemas), ap \in AdditionalRules}

ItemRules ==
    {<<>>, <<[Schema |-> <<>>]>>}
    \cup {<<[Schema |-> <<l>>]>> :
            l \in LeafSchemas
                  \cup {Schema(<<"object">>, "a" :> Typed("string"), <<>>, <<>>, <<>>)}}

ArraySchemas1 ==
    {Schema(<<"array">>, p, it, <<>>, <<>>) :
        p \in {NoProps, "a" :> Typed("string")}, it \in ItemRules}

MidSchemas == LeafSchemas \cup ObjectSchemas1 \cup ArraySchemas1

RootSchemas ==
    {Schema(<<"object">>, p, <<>>, ap, <<>>) :
        p \in PropsOver(MidSchemas), ap \in AdditionalRules}
    \cup {Schema(<<>>, NoProps, <<>>, AllowsOnly, <<Typed("object")>>)}

StringLeafSchemas == {Typed("string"), Typed("integer"), OneOfString}

\* a document {a: <string>} against {a: <leaf schema>}, for every string
StringCases ==
    {<<Map("a" :> Str(s)), <<Schema(<<"object">>, "a" :> l, <<>>, <<>>, <<>>)>>, FALSE>> :
        s \in AllStrings \cup NamedStrings, l \in StringLeafSchemas}

WalkCases ==
    {<<d, <<sch>>, o>> : d \in RootDocuments, sch \in RootSchemas, o \in BOOLEAN}
    \cup {<<Map("a" :> [k |-> "int"]), <<>>, FALSE>>}

InitParse ==
    /\ \E c \in StringCases \cup WalkCases :
          /\ resource = c[1]
          /\ schema = c[2]
          /\ mapOrder = c[3]
    /\ schema0 = schema
    /\ parsed = NoParse
    /\ pc = "call"
    /\ stored = FreshObject
    /\ resourcegroup = FreshObject
    /\ topologicalOrder = <<>>
    /\ reconcileErr = NilError
    /\ patchErr = "none"
    /\ result = [res |-> EmptyResult, err |-> NilError]

\* one call of ParseResource; the caller's schema is whatever the walk left
\* behind the pointer
ParseResource ==
    /\ pc = "call"
    /\ LET r == ParseResourceTop(resource, schema, mapOrder)
       IN  /\ parsed' = [fields |-> r.fields, err |-> r.err]
           /\ schema' = r.schema
    /\ pc' = "returned"
    /\ UNCHANGED <<resource, schema0, mapOrder, result>>
    /\ UNCHANGED statusVars

NextParse == ParseResource

SpecParse == InitParse /\ [][NextParse]_vars

-----------------------------------------------------------------------------
(* Properties of the parser *)

\* C5: a walk leaves the schema tree it was given as it was.
C5_SchemaUnchanged ==
    pc = "returned" => schema = schema0

\* braces balanced: the depth never drops below zero and ends at zero
RECURSIVE Balanced(_, _)
Balanced(body, depth) ==
    IF body = <<>> THEN depth = 0
    ELSE IF Head(body) = "{" THEN Balanced(Tail(body), depth + 1)
    ELSE IF Head(body) = "}" THEN depth > 0 /\ Balanced(Tail(body), depth - 1)
    ELSE Balanced(Tail(body), depth)

IsOneShotString(s) ==
    /\ Len(s) >= 3
    /\ s[1] = "$"
    /\ s[2] = "{"
    /\ s[Len(s)] = "}"
    /\ Balanced(StripDelimiters(s), 0)

\* the document is {a: <string>} and the schema types a with a leaf schema
IsStringCase ==
    /\ DOMAIN resource.m = {"a"}
    /\ resource.m["a"].k = "string"
    /\ schema0 # <<>>
    /\ schema0[1].Type = <<"object">>
    /\ DOMAIN schema0[1].Properties = {"a"}
    /\ schema0[1].Properties["a"] \in StringLeafSchemas

\* C6: a one-shot string leaf yields exactly one ExpressionField, OneShotCEL,
\* with the leaf's path, type and schema, and Expressions = <<body>> where body
\* is the text between "${" and the final "}".
C6_OneShotBody ==
    (pc = "returned" /\ IsStringCase /\ IsOneShotString(resource.m["a"].s)) =>
        LET leaf == ResolveType(schema0[1].Properties["a"])
        IN  /\ parsed.err = "nil"
            /\ parsed.fields =
                 <<[Path |-> ".a",
                    Expressions |-> <<StripDelimiters(resource.m["a"].s)>>,
                    ExpectedType |-> leaf.Type[1],
                    ExpectedSchema |-> <<leaf>>,
                    OneShotCEL |-> TRUE]>>

\* the document is {a: <array>} and the schema types a as an array
IsArrayCase ==
    /\ DOMAIN resource.m = {"a"}
    /\ resource.m["a"].k = "array"
    /\ schema0 # <<>>
    /\ schema0[1].Type = <<"object">>
    /\ DOMAIN schema0[1].Properties = {"a"}
    /\ schema0[1].Properties["a"].Type = <<"array">>

HasItemSchema(sch) == sch.Items # <<>> /\ sch.Items[1].Schema # <<>>

\* the elements conform to the object schema made of the array schema's properties
ElementsConform(a, sch) ==
    \A i \in 1..Len(a) :
        parseResource(a[i], <<Schema(<<"object">>, sch.Properties, <<>>, <<>>, <<>>)>>,
                      "", FALSE).err = "nil"

\* C8: an array schema without an item schema but with properties walks its
\* elements against an object schema of those properties and succeeds when
\* they conform; the array itself is refused only when it has neither.
C8_ArrayFallback ==
    (pc = "returned" /\ IsArrayCase) =>
        LET sch == schema0[1].Properties["a"]
            a == resource.m["a"].a
        IN  /\ (~HasItemSchema(sch) /\ DOMAIN sch.Properties # {}
                  /\ ElementsConform(a, sch)) => parsed.err = "nil"
            /\ parsed.err = "InvalidArraySchema" =>
                  (~HasItemSchema(sch) /\ DOMAIN sch.Properties = {})

\* C9: under an additional-properties rule that only allows, a key that is not
\* a named property is walked against an untyped schema, and a scalar or string
\* value passes; FieldNotFound needs a key that is not named and no rule.
C9_OpenObjectWildcard ==
    (pc = "returned" /\ schema0 # <<>> /\ DOMAIN resource.m = {"x"}
       /\ schema0[1].Type = <<"object">>) =>
        /\ schema0[1].AdditionalProperties = AllowsOnly => parsed.err = "nil"
        /\ parsed.err = "FieldNotFound" =>
              \/ schema0[1].AdditionalProperties = <<>>
              \/ ~schema0[1].AdditionalProperties[1].Allows

====
